---- MODULE Spec2Model ----
(***************************************************************************)
(* Model of the People-Also-Ask tree builder (searchWithDepth,             *)
(* buildQuestionTree, cleanQuestionData) and of the two upstream calls it  *)
(* awaits (googleSearch, fetchRelatedQuestions).                           *)
(*                                                                         *)
(* JavaScript objects are functions from field names to values, so that a  *)
(* field can be absent, object spread copies whatever fields are there and *)
(* later keys of an object literal override earlier ones.  The recursion   *)
(* of buildQuestionTree is an explicit stack of frames; one action is one  *)
(* branch of the loop body or one upstream answer.  The upstream service   *)
(* is the environment: each call is answered at the time it returns, by a  *)
(* failure or by any response the bounds allow.                            *)
(***************************************************************************)
EXTENDS Integers, Sequences, FiniteSets, TLC

VARIABLES
    pc,         \* position of searchWithDepth: init, seedWait, building, done, failed
    maxDepth,   \* the maxDepth argument
    stack,      \* frames of buildQuestionTree, outermost first
    inFlight,   \* upstream calls issued and not yet settled, each with the position
                \* of the question it was issued for
    result,     \* the object searchWithDepth resolves with, or NoResult
    thrown,     \* the message searchWithDepth rejects with, or NoError
    seedError,  \* history: the message googleSearch threw, or NoError
    seedCalls,  \* history: number of googleSearch calls
    fetched,    \* history: paths of the questions fetchRelatedQuestions was called for
    tokensSent, \* history: path -> pageToken argument of the call
    received,   \* history: parent path -> related_questions list upstream returned
    failures    \* history: path -> message of the failed fetchRelatedQuestions call

vars == <<pc, maxDepth, stack, inFlight, result, thrown, seedError, seedCalls, fetched,
          tokensSent, received, failures>>

----------------------------------------------------------------------------
(* Bounds of the model *)

\* largest maxDepth argument tried
MaxDepth == 3

\* total number of question entries upstream returns during one build
MaxQuestions == 5

----------------------------------------------------------------------------
(* Inputs *)

Query == "paa"

NoResult == [none |-> TRUE]
NoError == "<none>"

\* messages of the errors getJson rejects with
ErrorMessages == {"quota exceeded"}

\* an upstream entry's own children field, never part of the built tree
StaleChildren == <<[question |-> "stale", depth |-> 0, children |-> <<>>]>>

\* raw related_questions entries as upstream sends them
EntryA == [question |-> "A", serpapi_link |-> "link-A"]

EntryB == [question |-> "B", next_page_token |-> "T1", serpapi_link |-> "link-B",
           snippet |-> "s", depth |-> 0, children |-> StaleChildren]

EntryD == [question |-> "D", next_page_token |-> "", serpapi_link |-> "link-D",
           error |-> "upstream note"]

Pool == {EntryA, EntryB, EntryD}

\* responses of getJson that carry no related_questions, or an empty one
EmptyResponses == {[search_metadata |-> "ok"],
                   [search_metadata |-> "ok", related_questions |-> <<>>]}

----------------------------------------------------------------------------
(* Pure helpers *)

\* { ...base, <over> }: later keys override the spread ones
Spread(base, over) ==
    [f \in (DOMAIN base) \cup (DOMAIN over) |->
        IF f \in DOMAIN over THEN over[f] ELSE base[f]]

\* !question.next_page_token is false: the field is present and not ""
HasToken(question) ==
    /\ "next_page_token" \in DOMAIN question
    /\ question["next_page_token"] /= ""

\* x.related_questions && x.related_questions.length > 0
HasRelated(response) ==
    /\ "related_questions" \in DOMAIN response
    /\ Len(response["related_questions"]) > 0

\* variant: only the token is removed
cleanQuestionDataKeepsLink(question) ==
    [f \in (DOMAIN question) \ {"next_page_token"} |-> question[f]]

cleanQuestionData(question) ==
    [f \in (DOMAIN question) \ {"next_page_token", "serpapi_link"} |-> question[f]]

\* { ...cleanQuestionData(q), depth: currentDepth, children: [] }
LeafNode(question, currentDepth) ==
    Spread(cleanQuestionData(question),
           [depth |-> currentDepth, children |-> <<>>])

\* variant: the spread comes last, so the entry's own fields win
ExpandedNodeSpreadLast(question, currentDepth, children) ==
    Spread([depth |-> currentDepth, children |-> children],
           cleanQuestionData(question))

\* { ...cleanQuestionData(question), depth: currentDepth, children }
ExpandedNode(question, currentDepth, children) ==
    Spread(cleanQuestionData(question),
           [depth |-> currentDepth, children |-> children])

\* variant: the catch branch does not record the message
ErrorNodeNoMessage(question, currentDepth, message) ==
    Spread(cleanQuestionData(question),
           [depth |-> currentDepth, children |-> <<>>])

\* { ...cleanQuestionData(question), depth, children: [], error: error.message }
ErrorNode(question, currentDepth, message) ==
    Spread(cleanQuestionData(question),
           [depth |-> currentDepth, children |-> <<>>, error |-> message])

\* questions.map((q) => ({...cleanQuestionData(q), depth: currentDepth, children: []}))
MapLeaves(questions, currentDepth) ==
    [k \in 1..Len(questions) |-> LeafNode(questions[k], currentDepth)]

----------------------------------------------------------------------------
(* The call stack *)

NewFrame(questions, currentDepth) ==
    [questions |-> questions, currentDepth |-> currentDepth,
     i |-> 1, results |-> <<>>, phase |-> "run"]

Top == stack[Len(stack)]

SetTop(frame) == [stack EXCEPT ![Len(stack)] = frame]

\* position of the question the innermost frame is at: the indices along the stack
Path == [k \in 1..Len(stack) |-> stack[k].i]

Current == Top.questions[Top.i]

\* variant: results.unshift(node)
PushedFront(frame, node) ==
    [frame EXCEPT !.results = <<node>> \o @, !.i = @ + 1, !.phase = "run"]

\* results.push(node), then the loop goes to the next question
Pushed(frame, node) ==
    [frame EXCEPT !.results = Append(@, node), !.i = @ + 1, !.phase = "run"]

RECURSIVE SumLen(_, _)
SumLen(f, dom) ==
    IF dom = {} THEN 0
    ELSE LET p == CHOOSE x \in dom : TRUE
         IN Len(f[p]) + SumLen(f, dom \ {p})

Served == SumLen(received, DOMAIN received)

\* the non-empty lists upstream may still return
Lists == UNION {[1..n -> Pool] : n \in 1..(MaxQuestions - Served)}

\* variant: currentDepth > maxDepth
AtDepthLimitStrict(currentDepth, limit) == currentDepth > limit

\* if (currentDepth >= maxDepth)
AtDepthLimit(currentDepth, limit) == currentDepth >= limit

\* variant: the recursive call passes currentDepth unchanged
ChildDepthSame(currentDepth) == currentDepth

\* the currentDepth argument of the recursive call
ChildDepth(currentDepth) == currentDepth + 1

InLoop ==
    /\ pc = "building"
    /\ Top.phase = "run"
    /\ ~AtDepthLimit(Top.currentDepth, maxDepth)
    /\ Top.i <= Len(Top.questions)

----------------------------------------------------------------------------
(* Actions *)

Init ==
    /\ pc = "init"
    /\ maxDepth \in 1..MaxDepth
    /\ stack = <<>>
    /\ inFlight = {}
    /\ result = NoResult
    /\ thrown = NoError
    /\ seedError = NoError
    /\ seedCalls = 0
    /\ fetched = {}
    /\ tokensSent = <<>>
    /\ received = <<>>
    /\ failures = <<>>

\* searchWithDepth: await googleSearch(query, noCache)
Start ==
    /\ pc = "init"
    /\ pc' = "seedWait"
    /\ inFlight' = inFlight \cup {[call |-> "googleSearch", arg |-> Query, at |-> <<>>]}
    /\ seedCalls' = seedCalls + 1
    /\ UNCHANGED <<maxDepth, stack, result, thrown, seedError, fetched, tokensSent,
                   received, failures>>

\* variant: searchWithDepth catches the seed error and resolves with an empty tree
SeedFailsSwallowed ==
    /\ pc = "seedWait"
    /\ \E message \in ErrorMessages :
        /\ seedError' = message
        /\ result' = [query |-> Query, questions |-> <<>>]
        /\ pc' = "done"
        /\ inFlight' = {}
    /\ UNCHANGED <<maxDepth, stack, thrown, seedCalls, fetched, tokensSent,
                   received, failures>>

\* googleSearch rethrows; searchWithDepth has no handler and rejects
SeedFails ==
    /\ pc = "seedWait"
    /\ \E message \in ErrorMessages :
        /\ seedError' = message
        /\ thrown' = message
        /\ pc' = "failed"
        /\ inFlight' = {}
    /\ UNCHANGED <<maxDepth, stack, result, seedCalls, fetched, tokensSent,
                   received, failures>>

\* the seed response has no related questions
SeedEmpty ==
    /\ pc = "seedWait"
    /\ \E response \in EmptyResponses :
        /\ ~HasRelated(response)
        /\ result' = [query |-> Query, questions |-> <<>>]
        /\ pc' = "done"
        /\ inFlight' = {}
    /\ UNCHANGED <<maxDepth, stack, thrown, seedError, seedCalls, fetched, tokensSent,
                   received, failures>>

\* the seed response has related questions: buildQuestionTree(questions, maxDepth, 1)
SeedOk ==
    /\ pc = "seedWait"
    /\ \E questions \in Lists :
        LET response == [search_metadata |-> "ok", related_questions |-> questions]
        IN /\ HasRelated(response)
           /\ stack' = <<NewFrame(response["related_questions"], 1)>>
           /\ received' = (<<>> :> response["related_questions"])
           /\ pc' = "building"
           /\ inFlight' = {}
    /\ UNCHANGED <<maxDepth, result, thrown, seedError, seedCalls, fetched, tokensSent, failures>>

\* currentDepth >= maxDepth: every question becomes a leaf, nothing is fetched
DepthLimit ==
    /\ pc = "building"
    /\ Top.phase = "run"
    /\ AtDepthLimit(Top.currentDepth, maxDepth)
    /\ Top.i <= Len(Top.questions)
    /\ stack' = SetTop([Top EXCEPT
                          !.results = MapLeaves(Top.questions, Top.currentDepth),
                          !.i = Len(Top.questions) + 1])
    /\ UNCHANGED <<pc, maxDepth, inFlight, result, thrown, seedError, seedCalls, fetched,
                   tokensSent, received, failures>>

\* no page token: push a leaf and continue
LeafNoToken ==
    /\ InLoop
    /\ ~HasToken(Current)
    /\ stack' = SetTop(Pushed(Top, LeafNode(Current, Top.currentDepth)))
    /\ UNCHANGED <<pc, maxDepth, inFlight, result, thrown, seedError, seedCalls, fetched,
                   tokensSent, received, failures>>

\* variant: the call is not awaited, the loop goes on to the next question
IssueFetchNoAwait ==
    /\ InLoop
    /\ HasToken(Current)
    /\ inFlight' = inFlight \cup {[call |-> "fetchRelatedQuestions",
                                   arg |-> Current["next_page_token"],
                                   at |-> Path]}
    /\ fetched' = fetched \cup {Path}
    /\ tokensSent' = (Path :> Current["next_page_token"]) @@ tokensSent
    /\ stack' = SetTop([Top EXCEPT !.i = @ + 1])
    /\ UNCHANGED <<pc, maxDepth, result, thrown, seedError, seedCalls, received, failures>>

\* await fetchRelatedQuestions(question.next_page_token, noCache)
IssueFetch ==
    /\ InLoop
    /\ HasToken(Current)
    /\ inFlight' = inFlight \cup {[call |-> "fetchRelatedQuestions",
                                   arg |-> Current["next_page_token"],
                                   at |-> Path]}
    /\ fetched' = fetched \cup {Path}
    /\ tokensSent' = (Path :> Current["next_page_token"]) @@ tokensSent
    /\ stack' = SetTop([Top EXCEPT !.phase = "await"])
    /\ UNCHANGED <<pc, maxDepth, result, thrown, seedError, seedCalls, received, failures>>

\* variant: no try/catch, the rejection leaves buildQuestionTree and searchWithDepth
FetchFailsPropagates ==
    /\ pc = "building"
    /\ Top.phase = "await"
    /\ \E message \in ErrorMessages :
        /\ thrown' = message
        /\ failures' = (Path :> message) @@ failures
    /\ pc' = "failed"
    /\ stack' = <<>>
    /\ inFlight' = {}
    /\ UNCHANGED <<maxDepth, result, seedError, seedCalls, fetched, tokensSent,
                   received>>

\* variant: the catch branch runs the same question again
FetchFailsRetry ==
    /\ pc = "building"
    /\ Top.phase = "await"
    /\ \E message \in ErrorMessages :
        failures' = (Path :> message) @@ failures
    /\ stack' = SetTop([Top EXCEPT !.phase = "run"])
    /\ inFlight' = {}
    /\ UNCHANGED <<pc, maxDepth, result, thrown, seedError, seedCalls, fetched,
                   tokensSent, received>>

\* the call rejects: catch pushes the question with children [] and the message
FetchFails ==
    /\ pc = "building"
    /\ Top.phase = "await"
    /\ \E message \in ErrorMessages :
        /\ stack' = SetTop(Pushed(Top, ErrorNode(Current, Top.currentDepth, message)))
        /\ failures' = (Path :> message) @@ failures
    /\ inFlight' = {}
    /\ UNCHANGED <<pc, maxDepth, result, thrown, seedError, seedCalls, fetched, tokensSent,
                   received>>

\* the call resolves without related questions: children stays []
FetchEmpty ==
    /\ pc = "building"
    /\ Top.phase = "await"
    /\ \E response \in EmptyResponses :
        /\ ~HasRelated(response)
        /\ stack' = SetTop(Pushed(Top, ExpandedNode(Current, Top.currentDepth, <<>>)))
        /\ received' = (Path :> <<>>) @@ received
    /\ inFlight' = {}
    /\ UNCHANGED <<pc, maxDepth, result, thrown, seedError, seedCalls, fetched, tokensSent,
                   failures>>

\* the call resolves with related questions: recurse at currentDepth + 1
FetchOk ==
    /\ pc = "building"
    /\ Top.phase = "await"
    /\ \E questions \in Lists :
        LET response == [search_metadata |-> "ok", related_questions |-> questions]
        IN /\ HasRelated(response)
           /\ stack' = Append(SetTop([Top EXCEPT !.phase = "recurse"]),
                              NewFrame(response["related_questions"],
                                       ChildDepth(Top.currentDepth)))
           /\ received' = (Path :> response["related_questions"]) @@ received
    /\ inFlight' = {}
    /\ UNCHANGED <<pc, maxDepth, result, thrown, seedError, seedCalls, fetched, tokensSent,
                   failures>>

\* return results: to the awaiting parent frame, or to searchWithDepth
Return ==
    /\ pc = "building"
    /\ Top.phase = "run"
    /\ Top.i > Len(Top.questions)
    /\ IF Len(stack) > 1
       THEN LET parent == stack[Len(stack) - 1]
                node == ExpandedNode(parent.questions[parent.i],
                                     parent.currentDepth, Top.results)
            IN /\ stack' = [k \in 1..(Len(stack) - 1) |->
                              IF k = Len(stack) - 1 THEN Pushed(parent, node)
                              ELSE stack[k]]
               /\ UNCHANGED <<pc, result>>
       ELSE /\ stack' = <<>>
            /\ result' = [query |-> Query, questions |-> Top.results]
            /\ pc' = "done"
    /\ UNCHANGED <<maxDepth, inFlight, thrown, seedError, seedCalls, fetched, tokensSent,
                   received, failures>>

Next ==
    \/ Start
    \/ SeedFails
    \/ SeedEmpty
    \/ SeedOk
    \/ DepthLimit
    \/ LeafNoToken
    \/ IssueFetch
    \/ FetchFails
    \/ FetchEmpty
    \/ FetchOk
    \/ Return

Spec == Init /\ [][Next]_vars

\* every awaited call settles and the event loop runs the continuation
FairSpec == Spec /\ WF_vars(Next)

----------------------------------------------------------------------------
(* Observing the tree *)

Parent(path) == SubSeq(path, 1, Len(path) - 1)

Last(path) == path[Len(path)]

\* the raw upstream entry an output position was built from
RawAt(path) == received[Parent(path)][Last(path)]

\* a question buildQuestionTree may expand: it has a token and lies above the limit
Expandable(path) == HasToken(RawAt(path)) /\ Len(path) < maxDepth

\* every node of a list of nodes and below, with its position
RECURSIVE Nodes(_, _)
Nodes(list, prefix) ==
    UNION {{[path |-> Append(prefix, k), node |-> list[k]]}
           \cup Nodes(list[k]["children"], Append(prefix, k)) : k \in 1..Len(list)}

\* the nodes pushed so far: in the frames' results and in the returned tree
Emitted ==
    (IF pc = "done" THEN Nodes(result["questions"], <<>>) ELSE {})
    \cup UNION {Nodes(stack[k].results, [j \in 1..(k - 1) |-> stack[j].i])
                : k \in 1..Len(stack)}

\* the positions upstream has returned an entry for
Positions ==
    UNION {{Append(parent, k) : k \in 1..Len(received[parent])}
           : parent \in DOMAIN received}

EmittedAt(path) == {e \in Emitted : e.path = path}

\* path p comes before path q in depth-first pre-order
PreBefore(p, q) ==
    /\ p /= q
    /\ \/ /\ Len(p) < Len(q)
          /\ SubSeq(q, 1, Len(p)) = p
       \/ \E j \in 1..Len(p) :
            /\ j <= Len(q)
            /\ SubSeq(p, 1, j - 1) = SubSeq(q, 1, j - 1)
            /\ p[j] < q[j]

Terminated == pc \in {"done", "failed"}

\* a sibling's node is what the loop body makes of its entry on its own
ProcessedOnItsOwn(path) ==
    \E e \in EmittedAt(path) :
        /\ e.node["question"] = RawAt(path)["question"]
        /\ e.node["depth"] = Len(path)
        /\ IF Expandable(path)
           THEN /\ path \in fetched
                /\ \/ /\ path \in DOMAIN failures
                      /\ e.node["children"] = <<>>
                   \/ /\ path \in DOMAIN received
                      /\ path \notin DOMAIN failures
                      /\ Len(e.node["children"]) = Len(received[path])
           ELSE /\ path \notin fetched
                /\ e.node["children"] = <<>>

----------------------------------------------------------------------------
(* Claims *)

C2_ExpandOnlyWithTokenBelowLimit ==
    /\ \A p \in fetched :
        /\ HasToken(RawAt(p))
        /\ Len(p) < maxDepth
        /\ tokensSent[p] = RawAt(p)["next_page_token"]
    /\ \A e \in Emitted :
        /\ e.node["depth"] <= maxDepth
        /\ ~Expandable(e.path) =>
            /\ "children" \in DOMAIN e.node
            /\ e.node["children"] = <<>>
            /\ e.path \notin fetched
    /\ maxDepth = 1 =>
        /\ fetched = {}
        /\ \A c \in inFlight : c.call /= "fetchRelatedQuestions"

\* C2 witness: a finished build with maxDepth 2 that fetched for a root
\* question and emitted both a tokenless root leaf and a child that carries a
\* token at the depth limit.
C2_Witness ==
    /\ pc = "done"
    /\ maxDepth = 2
    /\ \E e \in Emitted : Len(e.path) = 1 /\ ~HasToken(RawAt(e.path))
    /\ \E e \in Emitted :
        /\ Len(e.path) = 2
        /\ HasToken(RawAt(e.path))
        /\ "children" \in DOMAIN RawAt(e.path)
        /\ Parent(e.path) \in fetched

\* C3: every node of questions has depth 1 and every child has its parent's
\* depth plus one, whatever depth or children field the upstream entry has.
C3_DepthIsLevel ==
    /\ pc = "done" => \A k \in 1..Len(result["questions"]) :
                          result["questions"][k]["depth"] = 1
    /\ \A e \in Emitted :
        \A k \in 1..Len(e.node["children"]) :
            e.node["children"][k]["depth"] = e.node["depth"] + 1

\* C3 witness: a finished build with an expanded node at depth 2 whose
\* upstream entry carried its own depth and children fields.
C3_Witness ==
    /\ pc = "done"
    /\ \E e \in Emitted :
        /\ Len(e.path) = 2
        /\ Len(e.node["children"]) > 0
        /\ "depth" \in DOMAIN RawAt(e.path)
        /\ RawAt(e.path)["depth"] /= 2
        /\ RawAt(e.path)["children"] /= e.node["children"]

\* C4: at every level the emitted list matches the related_questions list
\* received for it, one to one and in order: the node at position k has the
\* text of the k-th upstream entry, and a finished list has the length of
\* the upstream list.
C4_OrderPreserved ==
    /\ \A e \in Emitted :
        /\ e.path \in Positions
        /\ e.node["question"] = RawAt(e.path)["question"]
        /\ Len(e.node["children"]) =
              IF e.path \in DOMAIN received THEN Len(received[e.path]) ELSE 0
    /\ pc = "done" =>
          Len(result["questions"]) =
              IF <<>> \in DOMAIN received THEN Len(received[<<>>]) ELSE 0

\* C4 witness: a finished build whose root list holds a leaf, a failed and an
\* expanded question, the expanded one with two children of different text.
C4_Witness ==
    /\ pc = "done"
    /\ Len(result["questions"]) = 3
    /\ \E a, b, c \in 1..3 :
        /\ ~HasToken(RawAt(<<a>>))
        /\ <<b>> \in DOMAIN failures
        /\ <<c>> \in DOMAIN received
        /\ Len(result["questions"][c]["children"]) = 2
        /\ result["questions"][c]["children"][1]["question"]
              /= result["questions"][c]["children"][2]["question"]

\* C5: if googleSearch fails, searchWithDepth rejects with that error, has no
\* result object and fetches nothing; a seed response without related
\* questions resolves with exactly { query, questions: [] }.
C5_SeedFailureFailsBuild ==
    /\ seedError /= NoError =>
        /\ pc = "failed"
        /\ thrown = seedError
        /\ result = NoResult
        /\ fetched = {}
        /\ \A c \in inFlight : c.call /= "fetchRelatedQuestions"
    /\ (pc = "done" /\ <<>> \notin DOMAIN received) =>
        /\ result = [query |-> Query, questions |-> <<>>]
        /\ fetched = {}

\* C5 witness: the seed call has failed.
C5_Witness ==
    /\ seedCalls = 1
    /\ seedError \in ErrorMessages
    /\ pc = "failed"

\* C6: no emitted node has a next_page_token or a serpapi_link field.
C6_TokenAndLinkStripped ==
    \A e \in Emitted :
        /\ "next_page_token" \notin DOMAIN e.node
        /\ "serpapi_link" \notin DOMAIN e.node

\* C6 witness: a finished build with a leaf by missing token, a leaf at the
\* depth limit, an expanded and a failed node, each built from an entry that
\* carries both fields.
C6_Witness ==
    /\ pc = "done"
    /\ \E a, b, c, d \in Emitted :
        /\ \A e \in {a, b, c, d} :
              {"next_page_token", "serpapi_link"} \subseteq DOMAIN RawAt(e.path)
        /\ ~HasToken(RawAt(a.path)) /\ Len(a.path) < maxDepth
        /\ HasToken(RawAt(b.path)) /\ Len(b.path) = maxDepth
        /\ c.path \in DOMAIN received /\ Len(c.node["children"]) > 0
        /\ d.path \in DOMAIN failures

\* a step that issues fetchRelatedQuestions for the question at Path
FetchIssued ==
    /\ pc = "building"
    /\ Len(stack') = Len(stack)
    /\ Top.phase = "run"
    /\ stack'[Len(stack)].phase = "await"

\* C7: at most one upstream call is in flight, and the fetches are issued in
\* depth-first pre-order: when a fetch is issued no call is in flight, every
\* fetch issued before it was for an earlier position and has settled, and
\* every expandable question at an earlier position (earlier siblings, their
\* descendants, the ancestors) has already been fetched.
C7_OneCallAtATimeInPreOrder ==
    /\ [](Cardinality(inFlight) <= 1)
    /\ [][\A c \in inFlight' \ inFlight :
            /\ inFlight = {}
            /\ c.call = "fetchRelatedQuestions" =>
                /\ \A q \in fetched :
                    /\ PreBefore(q, c.at)
                    /\ q \in (DOMAIN failures) \cup (DOMAIN received)
                /\ \A s \in Positions :
                    (PreBefore(s, c.at) /\ Expandable(s)) => s \in fetched]_vars

\* C7 witness: a finished build that fetched for the first root question, for
\* that question's first child and then for the second root question.
C7_Witness ==
    /\ pc = "done"
    /\ {<<1>>, <<1, 1>>, <<2>>} \subseteq fetched

\* C8: fetchRelatedQuestions is issued at most once for each position of the
\* tree, also after a failure, and googleSearch is called exactly once.
C8_AtMostOneCallPerQuestion ==
    /\ [][FetchIssued => Path \notin fetched]_vars
    /\ [](seedCalls <= 1 /\ (pc /= "init" => seedCalls = 1))

\* C8 witness: a finished build with a failed fetch and two fetched positions
\* that carry the same token.
C8_Witness ==
    /\ pc = "done"
    /\ seedCalls = 1
    /\ failures /= <<>>
    /\ \E p, q \in fetched : p /= q /\ tokensSent[p] = tokensSent[q]

\* C9 as claimed: a node has an error field if and only if its expansion
\* failed, whatever fields the upstream entry carries.
C9_ErrorIffFailed ==
    \A e \in Emitted :
        ("error" \in DOMAIN e.node) <=> (e.path \in DOMAIN failures)

\* C9 amended: a node whose expansion failed has the failure's message as
\* error; a node built from an upstream entry without a field named error
\* has an error field if and only if its expansion failed; an entry's own
\* error field is passed through unless the expansion failed.
C9_ErrorIffFailedUnlessPassedThrough ==
    \A e \in Emitted :
        /\ e.path \in DOMAIN failures =>
            ("error" \in DOMAIN e.node /\ e.node["error"] = failures[e.path])
        /\ "error" \notin DOMAIN RawAt(e.path) =>
            (("error" \in DOMAIN e.node) <=> (e.path \in DOMAIN failures))
        /\ ("error" \in DOMAIN RawAt(e.path) /\ e.path \notin DOMAIN failures) =>
            ("error" \in DOMAIN e.node /\ e.node["error"] = RawAt(e.path)["error"])

\* C9 witness: a finished build with a failed node, an expanded node and
\* leaves, one of them built from an entry with its own error field.
C9_Witness ==
    /\ pc = "done"
    /\ \E a, b, c, d \in Emitted :
        /\ a.path \in DOMAIN failures
        /\ b.path \in DOMAIN received /\ Len(b.node["children"]) > 0
        /\ ~HasToken(RawAt(c.path)) /\ "error" \notin DOMAIN RawAt(c.path)
        /\ "error" \in DOMAIN RawAt(d.path)

\* the recursion is never deeper than maxDepth
DepthBounded ==
    /\ Len(stack) <= maxDepth
    /\ \A k \in 1..Len(stack) : stack[k].currentDepth = k

\* C10: when every call returns, searchWithDepth terminates, also when the
\* responses repeat a token at deeper levels, because the recursion depth
\* never exceeds maxDepth.
C10_Terminates ==
    /\ <>Terminated
    /\ []DepthBounded

\* C10 witness: a finished build in which a question at the depth limit
\* carries the token that was sent for its parent.
C10_Witness ==
    /\ pc = "done"
    /\ maxDepth >= 2
    /\ \E e \in Emitted :
        /\ Len(e.path) = maxDepth
        /\ HasToken(RawAt(e.path))
        /\ tokensSent[Parent(e.path)] = RawAt(e.path)["next_page_token"]

====
